---- MODULE Spec2Model ----
(***************************************************************************)
(* Model of the task manager's request handlers                            *)
(*   app/api/tasks/route.ts     task handler     GET / POST / PUT / DELETE *)
(*   app/api/auth/route.ts      auth handler     POST (login, signup), GET *)
(*   app/api/setup-db/route.ts  database check   GET       (lines 11-152)  *)
(*   app/api/setup-db/route.ts  user directory   GET / PUT (lines 155-325) *)
(*   globals.d.ts               client UI        TaskManager               *)
(* over the two tables users and tasks of the backing store.  A handler is *)
(* an operator from the tables and the request to the response and the new *)
(* tables; an action applies it to the state.  SpecSignup and SpecPut take *)
(* the signup and the task PUT one store call at a time, for two requests  *)
(* served at once; SpecInterleaved takes one task PUT or DELETE that way   *)
(* while other requests are served.  SpecUI is the client UI, which calls  *)
(* the store itself, with another browser changing the tasks.              *)
(***************************************************************************)
EXTENDS Integers, FiniteSets, Sequences, TLC

VARIABLES users, tasks, nextTaskId, resp, sessions, view

vars == <<users, tasks, nextTaskId, resp, sessions, view>>

(* ------------------------------ bounds -------------------------------- *)
MaxUsers == 2      \* user rows ever inserted
MaxTasks == 1      \* task rows ever inserted
MaxTime  == 1      \* distinct clock readings new Date() can give
NumNames == 2      \* distinct usernames a signup can ask for

(* ------------------------------ values -------------------------------- *)
\* null / "" / a missing query parameter: every value the handlers test with !x
NULL == 0
\* a key absent from a JSON body, where the code tests it with === undefined
UNDEFINED == 0 - 1

UserIds   == 1..MaxUsers
TaskIds   == 1..MaxTasks
Times     == 1..MaxTime
Usernames == 1..NumNames
Passwords == {"pw"}
Titles    == {"t"}
\* a title as a request carries it: a title, the empty string, or no such key
TitleArgs == Titles \cup {"", "undefined"}
Roles     == {"User", "Supervisor", "Manager"}
\* role values a request can carry: the three roles, another string, none
RoleArgs  == Roles \cup {"Guest", ""}
\* completed as a request carries it (true, false, null, or no such key); the
\* column stores the first three
CompletedArgs == {"true", "false", "null", "undefined"}

Truthy(completed) == completed = "true"

\* bcrypt.hash / bcrypt.compare
Hash(password) == <<"bcrypt", password>>
Compare(password, hash) == hash = Hash(password)

(* ------------------------------ store --------------------------------- *)
\* users(id, username unique, password_hash, role, supervisor_id FK users)
\* tasks(id, user_id FK users, created_by FK users, title, completed, completed_at)
UserRow(username, hash, role, supervisorId) ==
  [username |-> username, password_hash |-> hash, role |-> role,
   supervisor_id |-> supervisorId]

TaskRow(userId, createdBy, title) ==
  [user_id |-> userId, created_by |-> createdBy, title |-> title,
   completed |-> "false", completed_at |-> NULL]

\* a reference column accepts NULL or the id of an existing user
ForeignKeyOk(tbl, ref) == ref = NULL \/ ref \in DOMAIN tbl

\* .eq("id", id).single() finds exactly one row
HasRow(tbl, id) == id \in DOMAIN tbl

\* .from("users").select("id").eq("supervisor_id", s)
SupervisedBy(tbl, s) == {u \in DOMAIN tbl : tbl[u].supervisor_id = s}

Extend(tbl, id, row) == [k \in DOMAIN tbl \cup {id} |-> IF k = id THEN row ELSE tbl[k]]
Remove(tbl, id) == [k \in DOMAIN tbl \ {id} |-> tbl[k]]

\* the last exchange: the operation, the request's role and userId and its third
\* parameter (GET: supervisorId, POST: assignedUserId, PUT and DELETE: id, signup:
\* supervisorId, user directory PUT: targetUserId), and the response's status and
\* body (the tasks, the user, or the rows of a user listing)
NoUser == [id |-> NULL]
Response(op, role, userId, arg, status, error, taskIds, user, rows) ==
  [op |-> op, role |-> role, userId |-> userId, arg |-> arg,
   status |-> status, error |-> error, tasks |-> taskIds, user |-> user, rows |-> rows]

(* ------------------- task handler: app/api/tasks/route.ts ------------- *)
TaskOut(status, error, taskIds, newTasks) ==
  [status |-> status, error |-> error, data |-> taskIds, tasks |-> newTasks]


\* as TasksOwnedBy, selecting on created_by instead of user_id
TasksOwnedBy_ByCreator(T, userId) == {t \in DOMAIN T : T[t].created_by = userId}

\* .from("tasks").select("*").eq("user_id", userId)
TasksOwnedBy(T, userId) == {t \in DOMAIN T : T[t].user_id = userId}

\* .from("tasks").select(...).in("user_id", ids)
TasksOwnedIn(T, ids) == {t \in DOMAIN T : T[t].user_id \in ids}

\* role === "Supervisor" branch of GET
ListSupervisor(U, T, userId) ==
  LET supervisedUserIds == SupervisedBy(U, userId)
  IN  IF supervisedUserIds = {} THEN {} ELSE TasksOwnedIn(T, supervisedUserIds)


\* as ListManager, without the early return for a supervisor with no supervisees
ListManager_NoEarlyReturn(U, T, supervisorId) ==
  IF supervisorId # NULL /\ SupervisedBy(U, supervisorId) # {}
  THEN TasksOwnedIn(T, SupervisedBy(U, supervisorId))
  ELSE DOMAIN T

\* role === "Manager" branch of GET
ListManager(U, T, supervisorId) ==
  IF supervisorId # NULL
  THEN LET supervisedUserIds == SupervisedBy(U, supervisorId)
       IN  IF supervisedUserIds = {} THEN {} ELSE TasksOwnedIn(T, supervisedUserIds)
  ELSE DOMAIN T

\* GET: req = [userId, role, supervisorId]
TasksGET(U, T, req) ==
  IF req.userId = NULL
  THEN TaskOut(400, "User ID is required", {}, T)
  ELSE IF req.role = "User"
  THEN TaskOut(200, "", TasksOwnedBy(T, req.userId), T)
  ELSE IF req.role = "Supervisor"
  THEN TaskOut(200, "", ListSupervisor(U, T, req.userId), T)
  ELSE IF req.role = "Manager"
  THEN TaskOut(200, "", ListManager(U, T, req.supervisorId), T)
  ELSE TaskOut(200, "", TasksOwnedBy(T, req.userId), T)

\* a key with value undefined is dropped from the inserted row: the column is NULL
Stored(x) == IF x = UNDEFINED THEN NULL ELSE x

\* .from("tasks").insert([{ title, user_id, created_by, completed: false }])
InsertTask(U, T, newId, userId, createdBy, title) ==
  IF ForeignKeyOk(U, Stored(userId)) /\ ForeignKeyOk(U, Stored(createdBy))
  THEN TaskOut(200, "", {newId}, Extend(T, newId, TaskRow(Stored(userId), Stored(createdBy), title)))
  ELSE TaskOut(500, "Error creating task", {}, T)

\* as TitleMissing, testing for the absent key only
TitleMissing_OnlyAbsent(title) == title = "undefined"

\* POST line 139: !title
TitleMissing(title) == title \in {"", "undefined"}

\* as PostSupervisorCheck, testing only that the assigned user exists
PostSupervisorCheck_OnlyExistence(U, role, userId, assignedUserId) ==
  IF role # "Supervisor" THEN "ok"
  ELSE IF ~HasRow(U, assignedUserId) THEN "error"
  ELSE "ok"

\* POST lines 178-193: "error" when the lookup of the assigned user finds no row
PostSupervisorCheck(U, role, userId, assignedUserId) ==
  IF role # "Supervisor" THEN "ok"
  ELSE IF ~HasRow(U, assignedUserId) THEN "error"
  ELSE IF U[assignedUserId].supervisor_id # userId THEN "denied"
  ELSE "ok"

\* POST: req = [title, userId, role, assignedUserId]
TasksPOST(U, T, newId, req) ==
  IF TitleMissing(req.title)
  THEN TaskOut(400, "Title is required", {}, T)
  ELSE IF req.role \in {"Supervisor", "Manager"}
  THEN IF req.assignedUserId \in {NULL, UNDEFINED}
       THEN InsertTask(U, T, newId, req.userId, req.userId, req.title)
       ELSE IF PostSupervisorCheck(U, req.role, req.userId, req.assignedUserId) = "error"
       THEN TaskOut(500, "Error creating task", {}, T)
       ELSE IF PostSupervisorCheck(U, req.role, req.userId, req.assignedUserId) = "denied"
       THEN TaskOut(403, "You can only assign tasks to users you supervise", {}, T)
       ELSE InsertTask(U, T, newId, req.assignedUserId, req.userId, req.title)
  ELSE \* role === "User" and the default case are the same code
       IF req.userId \in {NULL, UNDEFINED}
       THEN TaskOut(400, "User ID is required", {}, T)
       ELSE InsertTask(U, T, newId, req.userId, req.userId, req.title)


\* as PutUserDenied, comparing the creator instead of the owner
PutUserDenied_ByCreator(role, task, userId) == role = "User" /\ task.created_by # userId

\* PUT lines 263-266
PutUserDenied(role, task, userId) == role = "User" /\ task.user_id # userId

\* PUT lines 268-284: "error" when the owner lookup finds no row
PutSupervisorCheck(U, role, task, userId) ==
  IF role # "Supervisor" THEN "ok"
  ELSE IF ~HasRow(U, task.user_id) THEN "error"
  ELSE IF U[task.user_id].supervisor_id # userId THEN "denied"
  ELSE "ok"


\* as UpdatePayload, without the else branch that clears the timestamp
UpdatePayload_KeepsTimestamp(task, completed, now) ==
  IF completed # "undefined"
  THEN [task EXCEPT !.completed = completed,
                    !.completed_at = IF Truthy(completed) THEN now ELSE task.completed_at]
  ELSE task

\* as UpdatePayload, keeping the time of the first completion of a task already stamped
UpdatePayload_StampOnce(task, completed, now) ==
  IF completed # "undefined"
  THEN [task EXCEPT !.completed = completed,
                    !.completed_at = IF Truthy(completed)
                                     THEN (IF task.completed_at # NULL THEN task.completed_at ELSE now)
                                     ELSE NULL]
  ELSE task

\* PUT lines 286-299: the update payload applied to the row; an empty payload
\* (completed absent) leaves the row as it is
UpdatePayload(task, completed, now) ==
  IF completed # "undefined"
  THEN [task EXCEPT !.completed = completed,
                    !.completed_at = IF Truthy(completed) THEN now ELSE NULL]
  ELSE task

\* as ApplyUpdate, without the filter on the id
ApplyUpdate_NoIdFilter(T, id, completed, now) ==
  [t \in DOMAIN T |-> UpdatePayload(T[t], completed, now)]

\* PUT line 301: .from("tasks").update(updatePayload).eq("id", id)
ApplyUpdate(T, id, completed, now) ==
  [T EXCEPT ![id] = UpdatePayload(T[id], completed, now)]

\* PUT: req = [id, completed, role, userId]
TasksPUT(U, T, now, req) ==
  IF req.id = UNDEFINED
  THEN TaskOut(400, "Task ID is required", {}, T)
  ELSE IF ~HasRow(T, req.id)
  THEN TaskOut(500, "Error updating task", {}, T)
  ELSE IF PutUserDenied(req.role, T[req.id], req.userId)
  THEN TaskOut(403, "You can only update your own tasks", {}, T)
  ELSE IF PutSupervisorCheck(U, req.role, T[req.id], req.userId) = "error"
  THEN TaskOut(500, "Error updating task", {}, T)
  ELSE IF PutSupervisorCheck(U, req.role, T[req.id], req.userId) = "denied"
  THEN TaskOut(403, "You can only update tasks for users you supervise", {}, T)
  ELSE TaskOut(200, "", {req.id}, ApplyUpdate(T, req.id, req.completed, now))


\* as DeleteUserDenied, comparing the creator instead of the owner
DeleteUserDenied_ByCreator(role, task, userId) == role = "User" /\ task.created_by # userId

\* DELETE lines 344-347
DeleteUserDenied(role, task, userId) == role = "User" /\ task.user_id # userId


\* as DeleteSupervisorCheck, applied to every role but User
DeleteSupervisorCheck_AlsoManager(U, role, task, userId) ==
  IF role \notin {"Supervisor", "Manager"} THEN "ok"
  ELSE IF ~HasRow(U, task.user_id) THEN "error"
  ELSE IF U[task.user_id].supervisor_id # userId THEN "denied"
  ELSE "ok"

\* DELETE lines 349-365
DeleteSupervisorCheck(U, role, task, userId) ==
  IF role # "Supervisor" THEN "ok"
  ELSE IF ~HasRow(U, task.user_id) THEN "error"
  ELSE IF U[task.user_id].supervisor_id # userId THEN "denied"
  ELSE "ok"

\* DELETE: req = [id, userId, role]
TasksDELETE(U, T, req) ==
  IF req.id = NULL \/ req.userId = NULL \/ req.role = ""
  THEN TaskOut(400, "Task ID, User ID, and Role are required", {}, T)
  ELSE IF ~HasRow(T, req.id)
  THEN TaskOut(500, "Error deleting task", {}, T)
  ELSE IF DeleteUserDenied(req.role, T[req.id], req.userId)
  THEN TaskOut(403, "You can only delete your own tasks", {}, T)
  ELSE IF DeleteSupervisorCheck(U, req.role, T[req.id], req.userId) = "error"
  THEN TaskOut(500, "Error deleting task", {}, T)
  ELSE IF DeleteSupervisorCheck(U, req.role, T[req.id], req.userId) = "denied"
  THEN TaskOut(403, "You can only delete tasks for users you supervise", {}, T)
  ELSE TaskOut(200, "", {}, Remove(T, req.id))

\* the requests each operation of the task handler is tried with
GetReqs == [userId : {NULL} \cup UserIds, role : RoleArgs, supervisorId : {NULL} \cup UserIds]
PostReqs == [title : TitleArgs, userId : {NULL, UNDEFINED} \cup UserIds, role : RoleArgs,
             assignedUserId : {NULL} \cup UserIds]
PutReqs == [id : {UNDEFINED} \cup TaskIds, completed : CompletedArgs, role : RoleArgs,
            userId : {NULL, UNDEFINED} \cup UserIds]
DeleteReqs == [id : {NULL} \cup TaskIds, userId : {NULL} \cup UserIds, role : RoleArgs]

(* ------------------- auth handler: app/api/auth/route.ts -------------- *)
UserOut(status, error, user, newUsers) ==
  [status |-> status, error |-> error, user |-> user, users |-> newUsers]

\* .select("*"): the row with all its columns, the id among them
FullRow(U, id) ==
  [c \in DOMAIN U[id] \cup {"id"} |-> IF c = "id" THEN id ELSE U[id][c]]

\* .select("id, username, ..."): the row restricted to the columns named
Select(U, id, columns) == [c \in columns |-> FullRow(U, id)[c]]

\* as UserWithoutPassword, sending the row as the store returned it
UserWithoutPassword_WholeRow(U, id) == FullRow(U, id)

\* const { password_hash, ...userWithoutPassword } = user
UserWithoutPassword(U, id) ==
  [c \in DOMAIN FullRow(U, id) \ {"password_hash"} |-> FullRow(U, id)[c]]

\* .from("users").select("*").eq("username", username): the ids of the rows found
ByUsername(U, username) == {u \in DOMAIN U : U[u].username = username}

\* login flow, lines 33-49
Login(U, req) ==
  LET found == ByUsername(U, req.username)
  IN  IF Cardinality(found) # 1
      THEN UserOut(401, "Invalid username or password", NoUser, U)
      ELSE LET id == CHOOSE u \in found : TRUE
           IN  IF ~Compare(req.password, U[id].password_hash)
               THEN UserOut(401, "Invalid username or password", NoUser, U)
               ELSE UserOut(200, "", UserWithoutPassword(U, id), U)

\* as SupervisorError, accepting any existing user as supervisor
SupervisorError_NoRoleCheck(U, supervisorId) ==
  IF supervisorId = NULL THEN ""
  ELSE IF ~HasRow(U, supervisorId) THEN "Invalid supervisor ID"
  ELSE ""

\* signup flow, lines 70-88: "" when the supervisor is accepted, else the error
SupervisorError(U, supervisorId) ==
  IF supervisorId = NULL THEN ""
  ELSE IF ~HasRow(U, supervisorId) THEN "Invalid supervisor ID"
  ELSE IF U[supervisorId].role # "Supervisor" /\ U[supervisorId].role # "Manager"
  THEN "Assigned supervisor must have Supervisor or Manager role"
  ELSE ""

\* lines 59-68 and 87: the row a signup request asks to insert
SignupRow(req) ==
  UserRow(req.username, Hash(req.password),
          IF req.role = "" THEN "User" ELSE req.role, req.supervisorId)

\* as InsertUser, on a users table without the unique index on username
InsertUser_NoUniqueIndex(U, newId, row) ==
  IF ~ForeignKeyOk(U, row.supervisor_id)
  THEN UserOut(500, "Error creating user", NoUser, U)
  ELSE LET U2 == Extend(U, newId, row)
       IN  UserOut(200, "", UserWithoutPassword(U2, newId), U2)

\* lines 90-103: .insert([userData]).select().single() on users(username UNIQUE,
\* supervisor_id REFERENCES users); an insert the table refuses is answered 500
InsertUser(U, newId, row) ==
  IF ByUsername(U, row.username) # {} \/ ~ForeignKeyOk(U, row.supervisor_id)
  THEN UserOut(500, "Error creating user", NoUser, U)
  ELSE LET U2 == Extend(U, newId, row)
       IN  UserOut(200, "", UserWithoutPassword(U2, newId), U2)

\* signup flow, lines 50-104
Signup(U, newId, req) ==
  IF ByUsername(U, req.username) # {}
  THEN UserOut(409, "Username already exists", NoUser, U)
  ELSE IF SupervisorError(U, req.supervisorId) # ""
  THEN UserOut(400, SupervisorError(U, req.supervisorId), NoUser, U)
  ELSE InsertUser(U, newId, SignupRow(req))

\* POST: req = [username, password, isLogin, role, supervisorId]
AuthPOST(U, newId, req) ==
  IF req.username = NULL \/ req.password = ""
  THEN UserOut(400, "Username and password are required", NoUser, U)
  ELSE IF req.isLogin THEN Login(U, req) ELSE Signup(U, newId, req)

ListOut(status, error, rows) == [status |-> status, error |-> error, rows |-> rows]

\* .from("users").select("id, username").in("role", ["Supervisor", "Manager"])
ListSupervisors(U) ==
  {Select(U, u, {"id", "username"}) : u \in {v \in DOMAIN U : U[v].role \in {"Supervisor", "Manager"}}}

\* .from("users").select("id, username, role").eq("supervisor_id", userId)
ListSupervised(U, userId) ==
  {Select(U, u, {"id", "username", "role"}) : u \in SupervisedBy(U, userId)}

\* .from("users").select("id, username, role, supervisor_id")
ListAll(U) == {Select(U, u, {"id", "username", "role", "supervisor_id"}) : u \in DOMAIN U}

\* GET, lines 112-203: req = [role, userId], role being the kind of listing asked for
AuthGET(U, req) ==
  IF req.role = "supervisors"
  THEN ListOut(200, "", ListSupervisors(U))
  ELSE IF req.role = "supervised" /\ req.userId # NULL
  THEN IF ~HasRow(U, req.userId)
       THEN ListOut(500, "Error fetching users", {})
       ELSE IF U[req.userId].role # "Supervisor" /\ U[req.userId].role # "Manager"
       THEN ListOut(403, "Unauthorized", {})
       ELSE ListOut(200, "", ListSupervised(U, req.userId))
  ELSE IF req.role = "all" /\ req.userId # NULL
  THEN IF ~HasRow(U, req.userId)
       THEN ListOut(500, "Error fetching users", {})
       ELSE IF U[req.userId].role # "Manager"
       THEN ListOut(403, "Unauthorized", {})
       ELSE ListOut(200, "", ListAll(U))
  ELSE ListOut(400, "Invalid request", {})

\* the kinds of listing a request can name: the three kinds, another string, none
ListKinds == {"supervisors", "supervised", "all", "other", ""}

AuthGetReqs == [role : ListKinds, userId : {NULL} \cup UserIds]

AuthReqs == [username : {NULL} \cup Usernames, password : {""} \cup Passwords,
             isLogin : BOOLEAN, role : Roles \cup {""}, supervisorId : {NULL} \cup UserIds]

(* ------- user directory: app/api/setup-db/route.ts, lines 155-325 ------ *)
\* lines 301-309: the update data applied to the target row
UpdateData(row, actorRole, role, supervisorId) ==
  LET r1 == IF role # "" /\ actorRole = "Manager" THEN [row EXCEPT !.role = role] ELSE row
  IN  IF supervisorId # UNDEFINED THEN [r1 EXCEPT !.supervisor_id = supervisorId] ELSE r1

\* as UsersPutRoleDenied, letting a Supervisor pass as well
UsersPutRoleDenied_SupervisorToo(actorRole, role) ==
  role # "" /\ actorRole \notin {"Manager", "Supervisor"}

\* PUT lines 279-282: only managers can update user roles
UsersPutRoleDenied(actorRole, role) == role # "" /\ actorRole # "Manager"

\* as UsersPutSupervisorCheck, letting a Supervisor take a user assigned to nobody
UsersPutSupervisorCheck_UnassignedToo(U, actorRole, userId, targetUserId) ==
  IF actorRole # "Supervisor" THEN "ok"
  ELSE IF ~HasRow(U, targetUserId) THEN "error"
  ELSE IF U[targetUserId].supervisor_id \notin {NULL, userId} THEN "denied"
  ELSE "ok"

\* PUT lines 284-299: "error" when the target lookup finds no row
UsersPutSupervisorCheck(U, actorRole, userId, targetUserId) ==
  IF actorRole # "Supervisor" THEN "ok"
  ELSE IF ~HasRow(U, targetUserId) THEN "error"
  ELSE IF U[targetUserId].supervisor_id # userId THEN "denied"
  ELSE "ok"

\* PUT: req = [userId, targetUserId, role, supervisorId]
UsersPUT(U, req) ==
  IF req.userId = NULL \/ req.targetUserId = NULL
  THEN UserOut(400, "User ID and target user ID are required", NoUser, U)
  ELSE IF ~HasRow(U, req.userId)
  THEN UserOut(500, "Error updating user", NoUser, U)
  ELSE IF UsersPutRoleDenied(U[req.userId].role, req.role)
  THEN UserOut(403, "Permission denied", NoUser, U)
  ELSE IF UsersPutSupervisorCheck(U, U[req.userId].role, req.userId, req.targetUserId) = "error"
  THEN UserOut(500, "Error updating user", NoUser, U)
  ELSE IF UsersPutSupervisorCheck(U, U[req.userId].role, req.userId, req.targetUserId) = "denied"
  THEN UserOut(403, "You can only update users assigned to you", NoUser, U)
  ELSE IF ~HasRow(U, req.targetUserId)
  THEN UserOut(500, "Error updating user", NoUser, U)
  ELSE LET row == UpdateData(U[req.targetUserId], U[req.userId].role, req.role, req.supervisorId)
       IN  IF ~ForeignKeyOk(U, row.supervisor_id)
           THEN UserOut(500, "Error updating user", NoUser, U)
           ELSE LET U2 == [U EXCEPT ![req.targetUserId] = row]
                IN  UserOut(200, "", Select(U2, req.targetUserId,
                                            {"id", "username", "role", "supervisor_id"}), U2)


\* as MaySeeSupervised, open to every stored role
MaySeeSupervised_Anyone(role) == role \in Roles

\* GET line 218
MaySeeSupervised(role) == ~(role # "Supervisor" /\ role # "Manager")

\* GET line 233
MaySeeAll(role) == ~(role # "Manager")

\* GET, lines 173-248: req = [type, userId]
UsersGET(U, req) ==
  IF req.type = "supervisors"
  THEN ListOut(200, "", ListSupervisors(U))
  ELSE IF req.userId = NULL
  THEN ListOut(400, "User ID is required", {})
  ELSE IF ~HasRow(U, req.userId)
  THEN ListOut(500, "Error fetching users", {})
  ELSE IF req.type = "supervised"
  THEN IF ~MaySeeSupervised(U[req.userId].role)
       THEN ListOut(403, "Permission denied", {})
       ELSE ListOut(200, "", ListSupervised(U, req.userId))
  ELSE IF req.type = "all"
  THEN IF ~MaySeeAll(U[req.userId].role)
       THEN ListOut(403, "Permission denied", {})
       ELSE ListOut(200, "", ListAll(U))
  ELSE ListOut(400, "Invalid request type", {})

UsersGetReqs == [type : ListKinds, userId : {NULL} \cup UserIds]

UsersPutReqs == [userId : {NULL} \cup UserIds, targetUserId : {NULL} \cup UserIds,
                 role : Roles \cup {""}, supervisorId : {UNDEFINED, NULL} \cup UserIds]

(* ------------------------------ actions ------------------------------- *)
\* the id the store gives the next user row
NewUserId(U) == Cardinality(DOMAIN U) + 1

\* the role the users table of Init gives user u (the task handler reads no stored role)
InitRole(u) == <<"Supervisor", "User", "Manager">>[((u - 1) % 3) + 1]

\* users tables with rows 1..n, n <= MaxUsers, and any supervisor assignment the
\* foreign key admits; signups followed by user directory PUTs produce each of them
UserTables ==
  UNION { { [u \in 1..n |-> UserRow(u, Hash(CHOOSE p \in Passwords : TRUE), InitRole(u), sup[u])] :
              sup \in [1..n -> {NULL} \cup (1..n)] }
          : n \in 0..MaxUsers }

\* requests in progress: none where each handler runs from start to end in one step
NoSessions == <<>>

\* the client UI as constructed (globals.d.ts lines 138-157): nobody logged in, no task
\* listed, the login form empty, no team member selected, the "my-tasks" tab active
FreshView ==
  [user |-> NoUser, tasks |-> <<>>, username |-> NULL, supervisedUsers |-> {},
   selectedUserId |-> NULL, activeTab |-> "my-tasks"]

NoResponse == Response("none", "", NULL, NULL, 0, "", {}, NoUser, {})

\* the task handler over a populated users table and an empty tasks table
Init ==
  /\ users \in UserTables
  /\ tasks = <<>>
  /\ nextTaskId = 1
  /\ resp = NoResponse
  /\ sessions = NoSessions
  /\ view = FreshView

\* the auth handler and the user directory over an empty store
InitUsers ==
  /\ users = <<>>
  /\ tasks = <<>>
  /\ nextTaskId = 1
  /\ resp = NoResponse
  /\ sessions = NoSessions
  /\ view = FreshView

TaskList ==
  \E req \in GetReqs :
    LET out == TasksGET(users, tasks, req)
    IN  /\ resp' = Response("GET", req.role, req.userId, req.supervisorId,
                            out.status, out.error, out.data, NoUser, {})
        /\ UNCHANGED <<users, tasks, nextTaskId, sessions, view>>

TaskCreate ==
  \E req \in PostReqs :
    LET out == TasksPOST(users, tasks, nextTaskId, req)
    IN  /\ out.tasks # tasks => nextTaskId <= MaxTasks
        /\ tasks' = out.tasks
        /\ nextTaskId' = IF out.tasks # tasks THEN nextTaskId + 1 ELSE nextTaskId
        /\ resp' = Response("POST", req.role, req.userId, req.assignedUserId,
                            out.status, out.error, out.data, NoUser, {})
        /\ UNCHANGED <<users, sessions, view>>

TaskUpdate ==
  \E req \in PutReqs, now \in Times :
    LET out == TasksPUT(users, tasks, now, req)
    IN  /\ tasks' = out.tasks
        /\ resp' = Response("PUT", req.role, req.userId, req.id,
                            out.status, out.error, out.data, NoUser, {})
        /\ UNCHANGED <<users, nextTaskId, sessions, view>>

TaskDelete ==
  \E req \in DeleteReqs :
    LET out == TasksDELETE(users, tasks, req)
    IN  /\ tasks' = out.tasks
        /\ resp' = Response("DELETE", req.role, req.userId, req.id,
                            out.status, out.error, out.data, NoUser, {})
        /\ UNCHANGED <<users, nextTaskId, sessions, view>>

Auth ==
  \E req \in AuthReqs :
    LET out == AuthPOST(users, NewUserId(users), req)
    IN  /\ out.users # users => NewUserId(users) <= MaxUsers
        /\ users' = out.users
        /\ resp' = Response(IF req.isLogin THEN "LOGIN" ELSE "SIGNUP", req.role, NULL, req.supervisorId,
                            out.status, out.error, {}, out.user, {})
        /\ UNCHANGED <<tasks, nextTaskId, sessions, view>>

UserUpdate ==
  \E req \in UsersPutReqs :
    LET out == UsersPUT(users, req)
    IN  /\ users' = out.users
        /\ resp' = Response("USERS_PUT", req.role, req.userId, req.targetUserId,
                            out.status, out.error, {}, out.user, {})
        /\ UNCHANGED <<tasks, nextTaskId, sessions, view>>

\* user directory GET; resp.role holds the kind of listing asked for
UserList ==
  \E req \in UsersGetReqs :
    LET out == UsersGET(users, req)
    IN  /\ resp' = Response("USERS_GET", req.type, req.userId, NULL,
                            out.status, out.error, {}, NoUser, out.rows)
        /\ UNCHANGED <<users, tasks, nextTaskId, sessions, view>>

\* auth GET; resp.role holds the kind of listing asked for
AuthList ==
  \E req \in AuthGetReqs :
    LET out == AuthGET(users, req)
    IN  /\ resp' = Response("AUTH_GET", req.role, req.userId, NULL,
                            out.status, out.error, {}, NoUser, out.rows)
        /\ UNCHANGED <<users, tasks, nextTaskId, sessions, view>>

Next == TaskList \/ TaskCreate \/ TaskUpdate \/ TaskDelete

Spec == Init /\ [][Next]_vars

NextUsers == Auth \/ UserUpdate \/ UserList \/ AuthList

SpecUsers == InitUsers /\ [][NextUsers]_vars

\* the tasks tables two successful POSTs leave: task 1, created by any request, and a
\* task no PUT request names, created by a regular user
TwoTaskTables(U) ==
  {T2 \in {TasksPOST(U, T, MaxTasks + 1, req).tasks :
             T \in {TasksPOST(U, <<>>, 1, r).tasks : r \in PostReqs},
             req \in {r \in PostReqs : r.role = "User"}} :
     DOMAIN T2 = {1, MaxTasks + 1}}

\* the task handler over a populated users table and two tasks
InitFrame ==
  /\ users \in UserTables
  /\ tasks \in TwoTaskTables(users)
  /\ nextTaskId = MaxTasks + 2
  /\ resp = NoResponse
  /\ sessions = NoSessions
  /\ view = FreshView

SpecFrame == InitFrame /\ [][Next]_vars

(* ------------- database check: app/api/setup-db/route.ts, GET --------- *)
\* line 33: `test_${Date.now()}`, a username no signup of the model uses
TestUsername == NumNames + 1
\* line 60
TestTitle == "Test task"

\* line 43: .from("users").delete().eq("username", testUsername)
DeleteByUsername(U, username) ==
  [u \in {v \in DOMAIN U : U[v].username # username} |-> U[u]]

\* line 70: .from("tasks").delete().eq("title", "Test task")
DeleteByTitle(T, title) ==
  [t \in {v \in DOMAIN T : T[v].title # title} |-> T[t]]

\* lines 29-48: the test user is inserted with the column defaults and, when the
\* insert succeeded, deleted again by its username
DbCheckUsers(U) ==
  LET out == InsertUser(U, NewUserId(U), UserRow(TestUsername, "test_password", "User", NULL))
  IN  IF out.status = 200 THEN DeleteByUsername(out.users, TestUsername) ELSE U

\* lines 51-76: with testUser a row of the users table (none: nothing is done), the
\* test task is inserted and, when the insert succeeded, deleted again by its title
DbCheckTasks(U, T, newId, testUser) ==
  IF testUser = NULL
  THEN T
  ELSE LET out == InsertTask(U, T, newId, testUser, UNDEFINED, TestTitle)
       IN  IF out.status = 200 THEN DeleteByTitle(out.tasks, TestTitle) ELSE T

\* GET, lines 11-152: always answered { success: true }
DbCheck ==
  LET U2 == DbCheckUsers(users)
  IN  \E testUser \in IF DOMAIN U2 = {} THEN {NULL} ELSE DOMAIN U2 :
        /\ users' = U2
        /\ tasks' = DbCheckTasks(U2, tasks, nextTaskId, testUser)
        /\ resp' = Response("DB_CHECK", "", NULL, NULL, 200, "", {}, NoUser, {})
        /\ UNCHANGED <<nextTaskId, sessions, view>>

\* the tasks tables one successful POST leaves, the title being any text a request
\* can carry, "Test task" among them
TitledTaskTables(U) ==
  {TasksPOST(U, <<>>, 1, [req EXCEPT !.title = title]).tasks :
     req \in PostReqs, title \in Titles \cup {TestTitle}} \ {<<>>}

\* the database check run against a store that holds users and one task
InitDbCheck ==
  /\ users \in UserTables
  /\ tasks \in TitledTaskTables(users)
  /\ nextTaskId = MaxTasks + 1
  /\ resp = NoResponse
  /\ sessions = NoSessions
  /\ view = FreshView

NextDbCheck == DbCheck \/ TaskUpdate \/ TaskDelete

SpecDbCheck == InitDbCheck /\ [][NextDbCheck]_vars

(* ------ requests in progress: a handler taken one store call at a time ---- *)
\* two requests being served at once
Sessions == {"A", "B"}

Idle == [pc |-> "idle"]

AllIdle == [s \in Sessions |-> Idle]

\* a session between two awaits: where it is, its request, and (PUT) the task it fetched
At(pc, req) == [pc |-> pc, req |-> req]
AtWithTask(pc, req, task) == [pc |-> pc, req |-> req, task |-> task]

Finished(s) == sessions[s].pc # "idle" /\ sessions'[s].pc = "idle"

(* auth POST, signup flow *)
SignupReqs == {req \in AuthReqs : ~req.isLogin}

SignupResponse(req, out) ==
  Response("SIGNUP", req.role, NULL, req.supervisorId, out.status, out.error, {}, out.user, {})

\* lines 27-31: the request is read and validated
SignupStart(s) ==
  /\ sessions[s].pc = "idle"
  /\ \E req \in SignupReqs :
       IF req.username = NULL \/ req.password = ""
       THEN /\ resp' = SignupResponse(req, UserOut(400, "Username and password are required", NoUser, users))
            /\ UNCHANGED sessions
       ELSE /\ sessions' = [sessions EXCEPT ![s] = At("exists", req)]
            /\ UNCHANGED resp
  /\ UNCHANGED <<users, tasks, nextTaskId, view>>

\* lines 53-57: the lookup of the username
SignupExists(s) ==
  /\ sessions[s].pc = "exists"
  /\ LET req == sessions[s].req
     IN  IF ByUsername(users, req.username) # {}
         THEN /\ resp' = SignupResponse(req, UserOut(409, "Username already exists", NoUser, users))
              /\ sessions' = [sessions EXCEPT ![s] = Idle]
         ELSE /\ sessions' = [sessions EXCEPT ![s] =
                               At(IF req.supervisorId # NULL THEN "supervisor" ELSE "insert", req)]
              /\ UNCHANGED resp
  /\ UNCHANGED <<users, tasks, nextTaskId, view>>

\* lines 71-88: the lookup of the supervisor
SignupSupervisor(s) ==
  /\ sessions[s].pc = "supervisor"
  /\ LET req == sessions[s].req
     IN  IF SupervisorError(users, req.supervisorId) # ""
         THEN /\ resp' = SignupResponse(req, UserOut(400, SupervisorError(users, req.supervisorId),
                                                     NoUser, users))
              /\ sessions' = [sessions EXCEPT ![s] = Idle]
         ELSE /\ sessions' = [sessions EXCEPT ![s] = At("insert", req)]
              /\ UNCHANGED resp
  /\ UNCHANGED <<users, tasks, nextTaskId, view>>

\* lines 90-103: the insert
SignupInsert(s) ==
  /\ sessions[s].pc = "insert"
  /\ LET req == sessions[s].req
         out == InsertUser(users, NewUserId(users), SignupRow(req))
     IN  /\ out.users # users => NewUserId(users) <= MaxUsers
         /\ users' = out.users
         /\ resp' = SignupResponse(req, out)
         /\ sessions' = [sessions EXCEPT ![s] = Idle]
  /\ UNCHANGED <<tasks, nextTaskId, view>>

InitSignup ==
  /\ users = <<>>
  /\ tasks = <<>>
  /\ nextTaskId = 1
  /\ resp = NoResponse
  /\ sessions = AllIdle
  /\ view = FreshView

NextSignup ==
  \E s \in Sessions : SignupStart(s) \/ SignupExists(s) \/ SignupSupervisor(s) \/ SignupInsert(s)

SpecSignup == InitSignup /\ [][NextSignup]_vars

(* task PUT *)
\* PUT requests that name a role and a user and toggle completion (true or false)
PutSessionReqs == [id : {UNDEFINED} \cup TaskIds, completed : {"true", "false"},
                   role : Roles, userId : UserIds]

\* line 294: what new Date() gives a session; the two sessions read different times
Clock(s) == IF s = "A" THEN 1 ELSE 2

PutResponse(req, out) ==
  Response("PUT", req.role, req.userId, req.id, out.status, out.error, out.data, NoUser, {})

\* lines 246-250: the request is read and validated
PutStart(s) ==
  /\ sessions[s].pc = "idle"
  /\ \E req \in PutSessionReqs :
       IF req.id = UNDEFINED
       THEN /\ resp' = PutResponse(req, TaskOut(400, "Task ID is required", {}, tasks))
            /\ UNCHANGED sessions
       ELSE /\ sessions' = [sessions EXCEPT ![s] = At("fetch", req)]
            /\ UNCHANGED resp
  /\ UNCHANGED <<users, tasks, nextTaskId, view>>

\* lines 252-266: the task is fetched and a User's ownership tested
PutFetch(s) ==
  /\ sessions[s].pc = "fetch"
  /\ LET req == sessions[s].req
     IN  IF ~HasRow(tasks, req.id)
         THEN /\ resp' = PutResponse(req, TaskOut(500, "Error updating task", {}, tasks))
              /\ sessions' = [sessions EXCEPT ![s] = Idle]
         ELSE IF PutUserDenied(req.role, tasks[req.id], req.userId)
         THEN /\ resp' = PutResponse(req, TaskOut(403, "You can only update your own tasks", {}, tasks))
              /\ sessions' = [sessions EXCEPT ![s] = Idle]
         ELSE /\ sessions' = [sessions EXCEPT ![s] =
                 AtWithTask(IF req.role = "Supervisor" THEN "owner" ELSE "update", req, tasks[req.id])]
              /\ UNCHANGED resp
  /\ UNCHANGED <<users, tasks, nextTaskId, view>>

\* lines 268-284: a Supervisor's lookup of the owner of the task fetched
PutOwner(s) ==
  /\ sessions[s].pc = "owner"
  /\ LET req == sessions[s].req
         check == PutSupervisorCheck(users, req.role, sessions[s].task, req.userId)
     IN  IF check = "error"
         THEN /\ resp' = PutResponse(req, TaskOut(500, "Error updating task", {}, tasks))
              /\ sessions' = [sessions EXCEPT ![s] = Idle]
         ELSE IF check = "denied"
         THEN /\ resp' = PutResponse(req, TaskOut(403, "You can only update tasks for users you supervise", {}, tasks))
              /\ sessions' = [sessions EXCEPT ![s] = Idle]
         ELSE /\ sessions' = [sessions EXCEPT ![s] = AtWithTask("update", req, sessions[s].task)]
              /\ UNCHANGED resp
  /\ UNCHANGED <<users, tasks, nextTaskId, view>>

\* lines 286-307: the payload is built and written in one update of the row as it is now
PutUpdate(s) ==
  /\ sessions[s].pc = "update"
  /\ LET req == sessions[s].req
     IN  IF ~HasRow(tasks, req.id)
         THEN /\ resp' = PutResponse(req, TaskOut(500, "Error updating task", {}, tasks))
              /\ UNCHANGED tasks
         ELSE /\ tasks' = ApplyUpdate(tasks, req.id, req.completed, Clock(s))
              /\ resp' = PutResponse(req, TaskOut(200, "", {req.id}, tasks'))
  /\ sessions' = [sessions EXCEPT ![s] = Idle]
  /\ UNCHANGED <<users, nextTaskId, view>>

\* the tasks tables one successful POST leaves
OneTaskTables(U) == {TasksPOST(U, <<>>, 1, req).tasks : req \in PostReqs} \ {<<>>}

InitPut ==
  /\ users \in UserTables
  /\ tasks \in OneTaskTables(users)
  /\ nextTaskId = 2
  /\ resp = NoResponse
  /\ sessions = AllIdle
  /\ view = FreshView

NextPut == \E s \in Sessions : PutStart(s) \/ PutFetch(s) \/ PutOwner(s) \/ PutUpdate(s)

SpecPut == InitPut /\ [][NextPut]_vars

(* task DELETE *)
\* DELETE requests that name a task or none, a user and a role
DeleteSessionReqs == [id : {NULL} \cup TaskIds, userId : UserIds, role : Roles]

DeleteResponse(req, out) ==
  Response("DELETE", req.role, req.userId, req.id, out.status, out.error, out.data, NoUser, {})

\* lines 324-331: the request is read and validated
DeleteStart(s) ==
  /\ sessions[s].pc = "idle"
  /\ \E req \in DeleteSessionReqs :
       IF req.id = NULL
       THEN /\ resp' = DeleteResponse(req, TaskOut(400, "Task ID, User ID, and Role are required", {}, tasks))
            /\ UNCHANGED sessions
       ELSE /\ sessions' = [sessions EXCEPT ![s] = At("fetchForDelete", req)]
            /\ UNCHANGED resp
  /\ UNCHANGED <<users, tasks, nextTaskId, view>>

\* lines 333-347: the task is fetched and a User's ownership tested
DeleteFetch(s) ==
  /\ sessions[s].pc = "fetchForDelete"
  /\ LET req == sessions[s].req
     IN  IF ~HasRow(tasks, req.id)
         THEN /\ resp' = DeleteResponse(req, TaskOut(500, "Error deleting task", {}, tasks))
              /\ sessions' = [sessions EXCEPT ![s] = Idle]
         ELSE IF DeleteUserDenied(req.role, tasks[req.id], req.userId)
         THEN /\ resp' = DeleteResponse(req, TaskOut(403, "You can only delete your own tasks", {}, tasks))
              /\ sessions' = [sessions EXCEPT ![s] = Idle]
         ELSE /\ sessions' = [sessions EXCEPT ![s] =
                 AtWithTask(IF req.role = "Supervisor" THEN "ownerForDelete" ELSE "delete",
                            req, tasks[req.id])]
              /\ UNCHANGED resp
  /\ UNCHANGED <<users, tasks, nextTaskId, view>>

\* lines 349-365: a Supervisor's lookup of the owner of the task fetched
DeleteOwner(s) ==
  /\ sessions[s].pc = "ownerForDelete"
  /\ LET req == sessions[s].req
         check == DeleteSupervisorCheck(users, req.role, sessions[s].task, req.userId)
     IN  IF check = "error"
         THEN /\ resp' = DeleteResponse(req, TaskOut(500, "Error deleting task", {}, tasks))
              /\ sessions' = [sessions EXCEPT ![s] = Idle]
         ELSE IF check = "denied"
         THEN /\ resp' = DeleteResponse(req, TaskOut(403, "You can only delete tasks for users you supervise", {}, tasks))
              /\ sessions' = [sessions EXCEPT ![s] = Idle]
         ELSE /\ sessions' = [sessions EXCEPT ![s] = AtWithTask("delete", req, sessions[s].task)]
              /\ UNCHANGED resp
  /\ UNCHANGED <<users, tasks, nextTaskId, view>>

\* lines 367-374: the rows with the id, one or none, are deleted
DeleteRemove(s) ==
  /\ sessions[s].pc = "delete"
  /\ LET req == sessions[s].req
     IN  /\ tasks' = [t \in DOMAIN tasks \ {req.id} |-> tasks[t]]
         /\ resp' = DeleteResponse(req, TaskOut(200, "", {}, tasks'))
  /\ sessions' = [sessions EXCEPT ![s] = Idle]
  /\ UNCHANGED <<users, nextTaskId, view>>

(* a task PUT or DELETE in progress while other requests are served *)
\* the session whose handler is taken one store call at a time
Writer == CHOOSE s \in Sessions : TRUE

\* user directory PUTs that name both users and carry a supervisorId and no role
ReassignReqs == {req \in UsersPutReqs : /\ req.userId # NULL /\ req.targetUserId # NULL
                                        /\ req.role = "" /\ req.supervisorId # UNDEFINED}

\* user directory PUT, served from start to end, that assigns a supervisor or none
UserReassign ==
  \E req \in ReassignReqs :
    LET out == UsersPUT(users, req)
    IN  /\ users' = out.users
        /\ resp' = Response("USERS_PUT", req.role, req.userId, req.targetUserId,
                            out.status, out.error, {}, out.user, {})
        /\ UNCHANGED <<tasks, nextTaskId, sessions, view>>

\* between two store calls of the writer, a user directory PUT or a task DELETE is
\* served from start to end
NextInterleaved ==
  \/ PutStart(Writer) \/ PutFetch(Writer) \/ PutOwner(Writer) \/ PutUpdate(Writer)
  \/ DeleteStart(Writer) \/ DeleteFetch(Writer) \/ DeleteOwner(Writer) \/ DeleteRemove(Writer)
  \/ UserReassign
  \/ TaskDelete

SpecInterleaved == InitPut /\ [][NextInterleaved]_vars

(* ------------------- client UI: globals.d.ts, TaskManager ------------- *)
\* The component calls the store itself.  view holds its state: user, tasks (the
\* local task list, each task as the store returned it), auth.username, supervisedUsers,
\* selectedUserId ("" is NULL) and activeTab.  A handler reads the state of the render
\* that made it: a value it sets is seen by the next render, not by the calls it makes.
UiUserIds == 1..(MaxUsers + 1)

\* what is typed into the login form
UsernameArgs == UiUserIds \cup {MaxUsers + 2}
PasswordArgs == Passwords \cup {"wrong"}

Tabs == {"my-tasks", "team-tasks"}

\* lines 227-242: the users tables signups of the UI leave, a signup storing the password as typed
\* (line 229) and a supervisor being a user
\* other than oneself that the supervisor list offers (lines 286-289)
UiUserTables ==
  {[u \in UiUserIds |-> UserRow(u, CHOOSE p \in Passwords : TRUE, InitRole(u), sup[u])] :
     sup \in {f \in [UiUserIds -> {NULL} \cup UiUserIds] :
                \A u \in UiUserIds :
                  f[u] # NULL => (f[u] # u /\ InitRole(f[u]) \in {"Supervisor", "Manager"})}}

LeadsTeam(role) == role = "Supervisor" \/ role = "Manager"

\* fetchTasks, lines 318-378: the rows the store returns for the view
fetchTasks(U, T, userId, role, selectedUserId, activeTab) ==
  LET ids == IF selectedUserId # NULL /\ LeadsTeam(role)
             THEN TasksOwnedBy(T, selectedUserId)
             ELSE IF LeadsTeam(role) /\ activeTab = "team-tasks"
             THEN LET supervised == SupervisedBy(U, userId)
                  IN  IF supervised = {} THEN {} ELSE TasksOwnedIn(T, supervised)
             ELSE TasksOwnedBy(T, userId)
  IN  [t \in ids |-> T[t]]

\* what the UI did last: the handler, the user logged in, the handler's argument
\* (a username, a team member, a task) and whether the store call succeeded
UiEvent(op, arg, ok) ==
  Response(op, IF view.user.id = NULL THEN "" ELSE view.user.role, view.user.id, arg,
           IF ok THEN 200 ELSE 500, "", {}, NoUser, {})

\* lines 720, 731-795, 800-855, 908-914: the task list is rendered
ListShown ==
  \/ ~LeadsTeam(view.user.role)
  \/ view.activeTab = "my-tasks"
  \/ view.supervisedUsers # {}

\* lines 720, 733-745, 825-838, 860-870: the input that adds a task is rendered
AddShown ==
  \/ ~LeadsTeam(view.user.role)
  \/ view.activeTab = "my-tasks"
  \/ (view.supervisedUsers # {} /\ view.selectedUserId # NULL)

\* handleAuth, login flow, lines 176-209
handleAuth ==
  /\ view.user.id = NULL
  /\ \E username \in UsernameArgs, password \in PasswordArgs :
       LET found == ByUsername(users, username)
           data == FullRow(users, CHOOSE u \in found : TRUE)
           typed == [view EXCEPT !.username = username]
       IN  IF found # {} /\ data.password_hash = password
           THEN /\ view' = [typed EXCEPT
                              !.user = data,
                              !.tasks = fetchTasks(users, tasks, data.id, data.role,
                                                   view.selectedUserId, view.activeTab),
                              !.supervisedUsers = IF LeadsTeam(data.role)
                                                  THEN SupervisedBy(users, data.id) ELSE @]
                /\ resp' = Response("handleAuth", data.role, data.id, username, 200, "", {}, NoUser, {})
           ELSE /\ view' = typed
                /\ resp' = UiEvent("handleAuth", username, FALSE)
  /\ UNCHANGED <<users, tasks, nextTaskId, sessions>>

\* handleLogout, lines 480-486
handleLogout ==
  /\ view.user.id # NULL
  /\ view' = [view EXCEPT !.user = NoUser, !.tasks = <<>>]
  /\ resp' = UiEvent("handleLogout", NULL, TRUE)
  /\ UNCHANGED <<users, tasks, nextTaskId, sessions>>

\* handleUserSelect, lines 489-494, from the Select of lines 810-822
handleUserSelect ==
  /\ view.user.id # NULL /\ LeadsTeam(view.user.role)
  /\ view.activeTab = "team-tasks" /\ view.supervisedUsers # {}
  /\ \E userId \in ({NULL} \cup view.supervisedUsers) \ {view.selectedUserId} :
       /\ view' = [view EXCEPT
                     !.selectedUserId = userId,
                     !.tasks = fetchTasks(users, tasks, view.user.id, view.user.role,
                                          view.selectedUserId, view.activeTab)]
       /\ resp' = UiEvent("handleUserSelect", userId, TRUE)
  /\ UNCHANGED <<users, tasks, nextTaskId, sessions>>

\* handleTabChange, lines 497-504, from the Tabs of line 721
handleTabChange ==
  /\ view.user.id # NULL /\ LeadsTeam(view.user.role)
  /\ \E value \in Tabs \ {view.activeTab} :
       /\ view' = [view EXCEPT
                     !.activeTab = value,
                     !.selectedUserId = NULL,
                     !.tasks = fetchTasks(users, tasks, view.user.id, view.user.role,
                                          view.selectedUserId, view.activeTab)]
       /\ resp' = UiEvent("handleTabChange", NULL, TRUE)
  /\ UNCHANGED <<users, tasks, nextTaskId, sessions>>

\* line 428: setTasks([...tasks, data])
Appended(list, id, data) == Extend(list, id, data)

\* line 459: setTasks(tasks.map(t => t.id === taskId ? data : t))
Replaced(list, id, data) == [t \in DOMAIN list |-> IF t = id THEN data ELSE list[t]]

\* as Filtered, keeping the task
Filtered_KeepsAll(list, id) == list

\* line 473: setTasks(tasks.filter(t => t.id !== taskId))
Filtered(list, id) == [t \in DOMAIN list \ {id} |-> list[t]]

\* addTask, lines 380-438
addTask ==
  /\ view.user.id # NULL /\ AddShown
  /\ nextTaskId <= MaxTasks + 1
  /\ \E newTask \in Titles :
       LET taskUserId == IF /\ view.selectedUserId # NULL /\ view.activeTab = "team-tasks"
                            /\ LeadsTeam(view.user.role)
                         THEN view.selectedUserId ELSE view.user.id
           out == InsertTask(users, tasks, nextTaskId, taskUserId, view.user.id, newTask)
       IN  /\ tasks' = out.tasks
           /\ nextTaskId' = IF out.status = 200 THEN nextTaskId + 1 ELSE nextTaskId
           /\ view' = IF out.status = 200
                      THEN [view EXCEPT !.tasks = Appended(@, nextTaskId, out.tasks[nextTaskId])]
                      ELSE view
           /\ resp' = UiEvent("addTask", nextTaskId, out.status = 200)
  /\ UNCHANGED <<users, sessions>>

\* toggleTask, lines 440-464: the new value is the negation of the listed one
toggleTask ==
  /\ view.user.id # NULL /\ ListShown
  /\ \E taskId \in DOMAIN view.tasks, now \in Times :
       LET completed == IF view.tasks[taskId].completed = "true" THEN "false" ELSE "true"
       IN  IF HasRow(tasks, taskId)
           THEN /\ tasks' = ApplyUpdate(tasks, taskId, completed, now)
                /\ view' = [view EXCEPT !.tasks = Replaced(@, taskId, tasks'[taskId])]
                /\ resp' = UiEvent("toggleTask", taskId, TRUE)
           ELSE /\ UNCHANGED <<tasks, view>>
                /\ resp' = UiEvent("toggleTask", taskId, FALSE)
  /\ UNCHANGED <<users, nextTaskId, sessions>>

\* deleteTask, lines 466-477
deleteTask ==
  /\ view.user.id # NULL /\ ListShown
  /\ \E taskId \in DOMAIN view.tasks :
       /\ tasks' = [t \in DOMAIN tasks \ {taskId} |-> tasks[t]]
       /\ view' = [view EXCEPT !.tasks = Filtered(@, taskId)]
       /\ resp' = UiEvent("deleteTask", taskId, TRUE)
  /\ UNCHANGED <<users, nextTaskId, sessions>>

\* another browser runs the same component: its addTask, toggleTask and deleteTask
\* reach the store, its state is not kept
OtherEvent(op, arg) == Response(op, "", NULL, arg, 200, "", {}, NoUser, {})

otherAddTask ==
  /\ nextTaskId <= MaxTasks + 1
  /\ \E userId \in DOMAIN users, newTask \in Titles :
       /\ tasks' = InsertTask(users, tasks, nextTaskId, userId, userId, newTask).tasks
       /\ nextTaskId' = nextTaskId + 1
       /\ resp' = OtherEvent("otherAddTask", nextTaskId)
  /\ UNCHANGED <<users, sessions, view>>

otherToggleTask ==
  /\ \E taskId \in DOMAIN tasks, now \in Times :
       /\ tasks' = ApplyUpdate(tasks, taskId,
                               IF tasks[taskId].completed = "true" THEN "false" ELSE "true", now)
       /\ resp' = OtherEvent("otherToggleTask", taskId)
  /\ UNCHANGED <<users, nextTaskId, sessions, view>>

otherDeleteTask ==
  /\ \E taskId \in DOMAIN tasks :
       /\ tasks' = Remove(tasks, taskId)
       /\ resp' = OtherEvent("otherDeleteTask", taskId)
  /\ UNCHANGED <<users, nextTaskId, sessions, view>>

\* the UI over a store that holds the users and no task
InitUI ==
  /\ users \in UiUserTables
  /\ tasks = <<>>
  /\ nextTaskId = 1
  /\ resp = NoResponse
  /\ sessions = NoSessions
  /\ view = FreshView

NextUI ==
  \/ handleAuth \/ handleLogout \/ handleUserSelect \/ handleTabChange
  \/ addTask \/ toggleTask \/ deleteTask
  \/ otherAddTask \/ otherToggleTask \/ otherDeleteTask

SpecUI == InitUI /\ [][NextUI]_vars

(* ------------------------------ claims -------------------------------- *)
\* the owner of task t is supervised by s
OwnerSupervisedBy(t, s) ==
  HasRow(users, tasks[t].user_id) /\ users[tasks[t].user_id].supervisor_id = s

C2_DeleteByOtherUserRefused ==
  [][(/\ resp'.op = "DELETE" /\ resp'.role = "User" /\ resp'.userId # NULL
      /\ HasRow(tasks, resp'.arg)
      /\ tasks[resp'.arg].user_id # resp'.userId)
     => (/\ resp'.status = 403
         /\ HasRow(tasks', resp'.arg)
         /\ tasks'[resp'.arg] = tasks[resp'.arg]
         /\ tasks' = tasks)]_vars

\* a User's DELETE of a task of another user was refused, and the task is there
C2_Witness ==
  /\ resp.op = "DELETE" /\ resp.role = "User" /\ resp.status = 403
  /\ HasRow(users, resp.userId)
  /\ HasRow(tasks, resp.arg)
  /\ tasks[resp.arg].user_id \in DOMAIN users \ {resp.userId}

\* C3: GET with role=User returns exactly the tasks whose user_id is the actor's
\* userId.
C3_UserListsOwnTasks ==
  (resp.op = "GET" /\ resp.role = "User" /\ resp.userId # NULL)
    => /\ resp.status = 200
       /\ resp.tasks = {t \in DOMAIN tasks : tasks[t].user_id = resp.userId}

\* a User listed while a task exists that another user owns but the actor created
C3_Witness ==
  /\ resp.op = "GET" /\ resp.role = "User" /\ resp.status = 200
  /\ HasRow(users, resp.userId)
  /\ \E t \in DOMAIN tasks :
       /\ tasks[t].user_id \in DOMAIN users \ {resp.userId}
       /\ tasks[t].created_by = resp.userId
       /\ t \notin resp.tasks

\* C4: GET with role=Supervisor returns the tasks owned by the actor together with
\* the tasks owned by every user whose supervisor_id is the actor's id, also when
\* the actor has no supervisees.
C4_SupervisorListsOwnAndSupervised ==
  (resp.op = "GET" /\ resp.role = "Supervisor" /\ resp.userId # NULL)
    => /\ resp.status = 200
       /\ resp.tasks = {t \in DOMAIN tasks :
                          tasks[t].user_id = resp.userId \/ OwnerSupervisedBy(t, resp.userId)}

\* C5: a Manager's GET with supervisorId = S returns exactly the tasks whose owner
\* has supervisor_id = S, whoever created them, and nothing when S supervises nobody.
C5_ManagerFilterBySupervisor ==
  (resp.op = "GET" /\ resp.role = "Manager" /\ resp.userId # NULL /\ resp.arg # NULL)
    => /\ resp.status = 200
       /\ resp.tasks = {t \in DOMAIN tasks : OwnerSupervisedBy(t, resp.arg)}

\* a Manager's filtered listing returned a task that its owner did not create
C5_Witness ==
  /\ resp.op = "GET" /\ resp.role = "Manager" /\ resp.arg # NULL /\ resp.status = 200
  /\ \E t \in resp.tasks : tasks[t].created_by # tasks[t].user_id

\* C6: a Supervisor's PUT or DELETE on an existing task is allowed if and only if
\* the task's owner is the actor or the owner's supervisor_id is the actor's id.
C6_SupervisorOwnOrSupervised ==
  [][(/\ resp'.op \in {"PUT", "DELETE"} /\ resp'.role = "Supervisor"
      /\ resp'.userId \in UserIds
      /\ HasRow(tasks, resp'.arg))
     => ((resp'.status = 200)
           <=> (\/ tasks[resp'.arg].user_id = resp'.userId
                \/ OwnerSupervisedBy(resp'.arg, resp'.userId)))]_vars

\* C7: a Manager's PUT or DELETE on any existing task succeeds, whoever owns the task
\* and whoever supervises the owner.
C7_ManagerAlwaysAllowed ==
  [][(/\ resp'.op \in {"PUT", "DELETE"} /\ resp'.role = "Manager"
      /\ resp'.userId \in UserIds
      /\ HasRow(tasks, resp'.arg))
     => (/\ resp'.status = 200
         /\ resp'.op = "DELETE" => tasks' = Remove(tasks, resp'.arg)
         /\ resp'.op = "PUT" => HasRow(tasks', resp'.arg))]_vars

\* a Manager's PUT completed a task whose owner is another user, not supervised by
\* the Manager
C7_Witness ==
  /\ resp.op = "PUT" /\ resp.role = "Manager" /\ resp.status = 200
  /\ HasRow(users, resp.userId)
  /\ HasRow(tasks, resp.arg)
  /\ tasks[resp.arg].user_id \in DOMAIN users \ {resp.userId}
  /\ users[tasks[resp.arg].user_id].supervisor_id # resp.userId
  /\ tasks[resp.arg].completed = "true"

\* C8: a PUT with role=User whose userId differs from the task's user_id is answered
\* 403 and leaves the task's completed and completed_at unchanged.
C8_PutByOtherUserRefused ==
  [][(/\ resp'.op = "PUT" /\ resp'.role = "User"
      /\ HasRow(tasks, resp'.arg)
      /\ tasks[resp'.arg].user_id # resp'.userId)
     => (/\ resp'.status = 403
         /\ HasRow(tasks', resp'.arg)
         /\ tasks'[resp'.arg].completed = tasks[resp'.arg].completed
         /\ tasks'[resp'.arg].completed_at = tasks[resp'.arg].completed_at)]_vars

\* a User's PUT on a task of another user was refused
C8_Witness ==
  /\ resp.op = "PUT" /\ resp.role = "User" /\ resp.status = 403
  /\ HasRow(users, resp.userId)
  /\ HasRow(tasks, resp.arg)
  /\ tasks[resp.arg].user_id \in DOMAIN users \ {resp.userId}

\* supervisorId names no existing user, or a user who is neither Supervisor nor Manager
BadSupervisor(supervisorId) ==
  /\ supervisorId # NULL
  /\ \/ ~HasRow(users, supervisorId)
     \/ users[supervisorId].role \notin {"Supervisor", "Manager"}

\* C9: in every state that signups and user directory PUTs reach, every user with a
\* non-null supervisor_id references a user whose role is Supervisor or Manager.
C9_SupervisorHasSupervisingRole ==
  \A u \in DOMAIN users : users[u].supervisor_id # NULL => ~BadSupervisor(users[u].supervisor_id)

\* C10: a signup whose supervisorId names a user who is neither Supervisor nor Manager,
\* or no existing user, is rejected with status 400 and creates no user row.
C10_BadSupervisorSignupIs400 ==
  [][(resp'.op = "SIGNUP" /\ BadSupervisor(resp'.arg))
     => (resp'.status = 400 /\ users' = users)]_vars

\* C10 as amended: such a signup creates no user row and is answered 409 when it
\* carries a username and a password and the username is taken, and 400 otherwise.
C10_BadSupervisorSignupRejected ==
  \A req \in AuthReqs :
    (~req.isLogin /\ BadSupervisor(req.supervisorId))
      => LET out == AuthPOST(users, NewUserId(users), req)
         IN  /\ out.users = users
             /\ out.status = IF /\ req.username # NULL /\ req.password # ""
                                /\ ByUsername(users, req.username) # {}
                             THEN 409 ELSE 400

\* a signup naming a supervisor with role User was answered 400
C10_Witness ==
  /\ resp.op = "SIGNUP" /\ resp.status = 400
  /\ resp.error = "Assigned supervisor must have Supervisor or Manager role"
  /\ HasRow(users, resp.arg)
  /\ users[resp.arg].role = "User"

\* C11: the supervisor_id of an existing user changes only through a user directory
\* PUT whose acting user has stored role Manager or is the target itself.
C11_SupervisorChangeByManagerOrSelf ==
  [][\A u \in DOMAIN users :
       users'[u].supervisor_id # users[u].supervisor_id
         => /\ resp'.op = "USERS_PUT"
            /\ HasRow(users, resp'.userId)
            /\ (users[resp'.userId].role = "Manager" \/ resp'.userId = u)]_vars

\* C12: the role of an existing user changes only in a user directory PUT whose acting
\* user has stored role Manager; a PUT that names a target and carries a role, from an
\* actor whose stored role is not Manager, is answered 403 and changes no user row.
C12_RoleChangeOnlyByManager ==
  [][/\ \A u \in DOMAIN users :
          users'[u].role # users[u].role
            => /\ resp'.op = "USERS_PUT"
               /\ HasRow(users, resp'.userId)
               /\ users[resp'.userId].role = "Manager"
     /\ (/\ resp'.op = "USERS_PUT" /\ resp'.role # "" /\ resp'.arg # NULL
         /\ HasRow(users, resp'.userId)
         /\ users[resp'.userId].role # "Manager")
        => (resp'.status = 403 /\ users' = users)]_vars

\* a Supervisor's PUT carrying a role for a user assigned to that Supervisor was refused
C12_Witness ==
  /\ resp.op = "USERS_PUT" /\ resp.role # "" /\ resp.status = 403
  /\ HasRow(users, resp.userId) /\ users[resp.userId].role = "Supervisor"
  /\ HasRow(users, resp.arg) /\ users[resp.arg].supervisor_id = resp.userId
  /\ users[resp.arg].role # resp.role

\* the row a POST answered 200 has inserted
NewTask == tasks'[nextTaskId]

\* C13: on a POST that carries a title: a Supervisor naming an existing assignedUserId
\* whose supervisor_id is not the actor's userId gets 403 and no task is inserted; a
\* Supervisor's or Manager's successful POST with an assignedUserId inserts a task with
\* user_id = assignedUserId and created_by = actor; every other successful POST inserts
\* a task with user_id = created_by = actor.
C13_AssignmentOnCreate ==
  [][(resp'.op = "POST" /\ resp'.error # "Title is required")
     => /\ (/\ resp'.role = "Supervisor" /\ resp'.arg # NULL
            /\ HasRow(users, resp'.arg)
            /\ users[resp'.arg].supervisor_id # resp'.userId)
           => (resp'.status = 403 /\ tasks' = tasks)
        /\ (resp'.status = 200 /\ resp'.role \in {"Supervisor", "Manager"} /\ resp'.arg # NULL)
           => /\ DOMAIN tasks' = DOMAIN tasks \cup {nextTaskId}
              /\ NewTask.user_id = resp'.arg
              /\ NewTask.created_by = Stored(resp'.userId)
              /\ resp'.role = "Supervisor" => users[resp'.arg].supervisor_id = resp'.userId
        /\ (resp'.status = 200 /\ (resp'.role \notin {"Supervisor", "Manager"} \/ resp'.arg = NULL))
           => /\ DOMAIN tasks' = DOMAIN tasks \cup {nextTaskId}
              /\ NewTask.user_id = Stored(resp'.userId)
              /\ NewTask.created_by = Stored(resp'.userId)]_vars

\* a Supervisor has created a task for a supervisee
C13_Witness ==
  /\ resp.op = "POST" /\ resp.role = "Supervisor" /\ resp.status = 200
  /\ HasRow(users, resp.userId)
  /\ HasRow(users, resp.arg) /\ resp.arg # resp.userId
  /\ \E t \in resp.tasks : tasks[t].user_id = resp.arg /\ tasks[t].created_by = resp.userId

\* C14: a POST whose title is missing or empty is answered 400 whatever the role, and
\* inserts no task row.
C14_TitleRequired ==
  \A req \in PostReqs :
    req.title \in {"", "undefined"}
      => LET out == TasksPOST(users, tasks, nextTaskId, req)
         IN  out.status = 400 /\ out.tasks = tasks

\* a Manager's POST without a title was answered 400 and the tasks table is empty
C14_Witness ==
  /\ resp.op = "POST" /\ resp.role = "Manager" /\ resp.status = 400
  /\ resp.error = "Title is required"
  /\ HasRow(users, resp.userId)
  /\ tasks = <<>>

\* C15: a PUT or DELETE naming a task id that has no row in the tasks table is answered
\* 404, not 500, and changes nothing.
C15_MissingTaskIs404 ==
  [][(/\ resp'.op \in {"PUT", "DELETE"}
      /\ resp'.arg \in TaskIds /\ ~HasRow(tasks, resp'.arg)
      /\ resp'.userId \in UserIds /\ resp'.role \in Roles)
     => (resp'.status = 404 /\ tasks' = tasks)]_vars

\* C16: no response of the auth handler and none of the user directory handler carries
\* a password_hash, in the user it returns or in any row of a listing.
C16_NoPasswordHashInResponse ==
  resp.op \in {"LOGIN", "SIGNUP", "AUTH_GET", "USERS_GET", "USERS_PUT"}
    => /\ "password_hash" \notin DOMAIN resp.user
       /\ \A row \in resp.rows : "password_hash" \notin DOMAIN row

\* a login has succeeded and returned the user, whose row holds a password_hash
C16_Witness ==
  /\ resp.op = "LOGIN" /\ resp.status = 200
  /\ HasRow(users, resp.user.id)
  /\ resp.user.username = users[resp.user.id].username
  /\ "password_hash" \in DOMAIN users[resp.user.id]

\* C19: a user listing GET (user directory or auth handler) answers the supervised users
\* only to a requester whose stored role is Supervisor or Manager, and all users only to
\* one whose stored role is Manager; a requester with any other stored role gets 403
\* and no rows.
C19_ListingByStoredRole ==
  (resp.op \in {"USERS_GET", "AUTH_GET"} /\ resp.role \in {"supervised", "all"})
    => LET allowed == IF resp.role = "all" THEN {"Manager"} ELSE {"Supervisor", "Manager"}
       IN  /\ resp.status = 200
             => /\ HasRow(users, resp.userId)
                /\ users[resp.userId].role \in allowed
                /\ resp.rows = IF resp.role = "all" THEN ListAll(users)
                                                    ELSE ListSupervised(users, resp.userId)
           /\ (HasRow(users, resp.userId) /\ users[resp.userId].role \notin allowed)
             => (resp.status = 403 /\ resp.rows = {})
           /\ resp.status # 200 => resp.rows = {}

\* a User asked the user directory for the users they supervise, has one, and got 403
C19_Witness ==
  /\ resp.op = "USERS_GET" /\ resp.role = "supervised" /\ resp.status = 403
  /\ HasRow(users, resp.userId) /\ users[resp.userId].role = "User"
  /\ SupervisedBy(users, resp.userId) # {}

\* C20: a user directory PUT by an actor whose stored role is Supervisor, on a target
\* whose supervisor_id is not the actor's id, is answered 403 and leaves the target's
\* row unchanged.
C20_SupervisorPutOnOthersRefused ==
  [][(/\ resp'.op = "USERS_PUT"
      /\ HasRow(users, resp'.userId) /\ users[resp'.userId].role = "Supervisor"
      /\ HasRow(users, resp'.arg)
      /\ users[resp'.arg].supervisor_id # resp'.userId)
     => (resp'.status = 403 /\ users'[resp'.arg] = users[resp'.arg] /\ users' = users)]_vars

\* a Supervisor's PUT without a role, on a user assigned to nobody, was refused
C20_Witness ==
  /\ resp.op = "USERS_PUT" /\ resp.role = "" /\ resp.status = 403
  /\ resp.error = "You can only update users assigned to you"
  /\ HasRow(users, resp.userId) /\ users[resp.userId].role = "Supervisor"
  /\ HasRow(users, resp.arg) /\ users[resp.arg].supervisor_id = NULL

UniqueUsernames(U) == \A u, v \in DOMAIN U : U[u].username = U[v].username => u = v

\* C17: with two signups in progress at once, taken one store call at a time, no step
\* leaves two user rows with one username, and a signup whose username has a row when
\* the signup ends is rejected and creates no row, whichever of its checks it has passed.
C17_UsernameUnique ==
  [][/\ UniqueUsernames(users')
     /\ \A s \in Sessions :
          (Finished(s) /\ ByUsername(users, sessions[s].req.username) # {})
            => (resp'.op = "SIGNUP" /\ resp'.status # 200 /\ users' = users)]_vars

\* a signup passed the username lookup, the other signup then inserted that username,
\* and the first one's insert was refused
C17_Witness ==
  /\ resp.op = "SIGNUP" /\ resp.status = 500 /\ resp.error = "Error creating user"
  /\ Cardinality(DOMAIN users) = 1
  /\ \A s \in Sessions : sessions[s].pc = "idle"

\* session s has applied its update in this step
Applied(s) == sessions[s].pc = "update" /\ Finished(s) /\ HasRow(tasks, sessions[s].req.id)

\* C18: with two PUTs on one existing task in progress at once, taken one store call at
\* a time: each is answered as it would be alone (none is refused because of the
\* other); an update, when applied, leaves the task's completed and completed_at as
\* that request alone sets them, whatever the other request wrote since this one
\* fetched the task; and no other step changes the task.
C18_LastUpdateWins ==
  [][/\ \A s \in Sessions :
          /\ Finished(s)
               => resp'.status = TasksPUT(users, tasks, Clock(s), sessions[s].req).status
          /\ Applied(s)
               => /\ resp'.status = 200
                  /\ tasks'[sessions[s].req.id].completed = sessions[s].req.completed
                  /\ tasks'[sessions[s].req.id].completed_at =
                       IF Truthy(sessions[s].req.completed) THEN Clock(s) ELSE NULL
     /\ (\A s \in Sessions : ~Applied(s)) => tasks' = tasks]_vars

\* session A has completed the task at its own time after session B had completed it,
\* and B is again about to update, holding the task as it fetched it before A's update
C18_Witness ==
  /\ resp.op = "PUT" /\ resp.status = 200
  /\ sessions["A"].pc = "idle"
  /\ sessions["B"].pc = "update"
  /\ HasRow(tasks, sessions["B"].req.id)
  /\ sessions["B"].task.completed = "true" /\ sessions["B"].task.completed_at = Clock("B")
  /\ tasks[sessions["B"].req.id].completed = "true"
  /\ tasks[sessions["B"].req.id].completed_at = Clock("A")

\* C22: a caller whose stored role is User never causes the update or the deletion of a
\* task another user owns, whatever role the request carries.
C22_StoredUserCannotTouchOthers ==
  [][(/\ resp'.op \in {"PUT", "DELETE"}
      /\ HasRow(users, resp'.userId) /\ users[resp'.userId].role = "User"
      /\ HasRow(tasks, resp'.arg)
      /\ tasks[resp'.arg].user_id # resp'.userId)
     => tasks' = tasks]_vars

\* C23: a request whose role is none of User, Supervisor, Manager is treated as a
\* regular User's: GET returns exactly the tasks with user_id = userId, a successful
\* POST inserts a task with user_id = userId, and a PUT or DELETE on a task whose
\* user_id differs from userId is answered 403 and changes nothing.  (A DELETE with no
\* role at all is a malformed request, answered 400, and is left out.)
C23_OtherRoleIsRegularUser ==
  [][(resp'.role \notin Roles /\ resp'.userId \in UserIds)
     => /\ resp'.op = "GET"
           => /\ resp'.status = 200
              /\ resp'.tasks = {t \in DOMAIN tasks : tasks[t].user_id = resp'.userId}
        /\ (resp'.op = "POST" /\ resp'.status = 200)
           => /\ DOMAIN tasks' = DOMAIN tasks \cup {nextTaskId}
              /\ NewTask.user_id = resp'.userId
        /\ (/\ resp'.op \in {"PUT", "DELETE"}
            /\ resp'.op = "DELETE" => resp'.role # ""
            /\ HasRow(tasks, resp'.arg)
            /\ tasks[resp'.arg].user_id # resp'.userId)
           => (resp'.status = 403 /\ tasks' = tasks)]_vars

\* C25: a POST without a userId is answered 400 and inserts nothing, for every role; no
\* task row ever has an absent user_id or created_by.
C25_PostRequiresUserId ==
  [][/\ (resp'.op = "POST" /\ resp'.userId \in {NULL, UNDEFINED})
          => (resp'.status = 400 /\ tasks' = tasks)
     /\ \A t \in DOMAIN tasks' : tasks'[t].user_id # NULL /\ tasks'[t].created_by # NULL]_vars

\* C26: no step of the task handler changes the user_id, created_by or title of a task
\* that stays; a PUT removes and adds no task, changes no task but the one it names,
\* and changes no user row.
C26_PutFrame ==
  [][/\ \A t \in DOMAIN tasks \cap DOMAIN tasks' :
          /\ tasks'[t].user_id = tasks[t].user_id
          /\ tasks'[t].created_by = tasks[t].created_by
          /\ tasks'[t].title = tasks[t].title
     /\ resp'.op = "PUT"
          => /\ DOMAIN tasks' = DOMAIN tasks
             /\ \A t \in DOMAIN tasks : t # resp'.arg => tasks'[t] = tasks[t]
             /\ users' = users]_vars

\* a PUT has completed task 1 while another task is there, not completed
C26_Witness ==
  /\ resp.op = "PUT" /\ resp.status = 200 /\ resp.arg = 1
  /\ HasRow(tasks, 1) /\ tasks[1].completed = "true"
  /\ \E t \in DOMAIN tasks \ {1} : tasks[t].completed = "false" /\ tasks[t].completed_at = NULL

\* C27: the database check leaves both tables as it found them: every row that was
\* there is still there, unchanged, and no row was added.
C27_DbCheckLeavesTables ==
  [][resp'.op = "DB_CHECK" => (users' = users /\ tasks' = tasks)]_vars

\* C24: a write of a Supervisor's task PUT or DELETE that is applied finds, in the
\* store as it is when the write is made, the task present and its owner's
\* supervisor_id equal to the Supervisor's id.
C24_SupervisorWriteChecked ==
  [][\A s \in Sessions :
       (/\ sessions[s].pc \in {"update", "delete"}
        /\ sessions'[s].pc = "idle"
        /\ sessions[s].req.role = "Supervisor"
        /\ \/ resp'.op = "PUT" /\ resp'.status = 200
           \/ tasks' # tasks)
       => /\ HasRow(tasks, sessions[s].req.id)
          /\ OwnerSupervisedBy(sessions[s].req.id, sessions[s].req.userId)]_vars

\* C28: after handleUserSelect(u) or handleTabChange(t) the task list shown is the
\* store's list for the new selection and the new tab.
C28_ListFollowsSelection ==
  [][resp'.op \in {"handleUserSelect", "handleTabChange"}
       => view'.tasks = fetchTasks(users', tasks', view'.user.id, view'.user.role,
                                   view'.selectedUserId, view'.activeTab)]_vars

\* C29: after a login that follows another user's session, the task list shown holds
\* only tasks the new user owns or whose owner the new user supervises.
C29_LoginShowsOwnOrSupervised ==
  [][(/\ resp'.op = "handleAuth" /\ resp'.status = 200
      /\ view.username # NULL /\ view.username # view'.username)
     => \A t \in DOMAIN view'.tasks :
          \/ view'.tasks[t].user_id = view'.user.id
          \/ view'.tasks[t].user_id \in SupervisedBy(users, view'.user.id)]_vars

====
